---- MODULE Spec2Model ----
(***************************************************************************)
(* Model of esphome/components/rp2040_pio_led_strip/light.py: the delay    *)
(* decomposer get_nops, the PIO program generator generate_assembly_code,  *)
(* the converter time_to_cycles, the validator _validate_timing and the    *)
(* build step to_code with the files it writes.                            *)
(*                                                                         *)
(* Python numbers: an int is a TLA+ integer.  A float that comes from a    *)
(* duration string is kept as an integer count of 1/Scale microseconds.    *)
(* Text: a line of PIO assembly is a record; a delay plan element is a     *)
(* record that keeps apart a number Python computed (num) and the "- 1"    *)
(* that get_nops leaves in the text for the assembler to evaluate (minus). *)
(***************************************************************************)
EXTENDS Integers, Sequences, FiniteSets

VARIABLES
    pc,        \* position of the run that is modelled
    timing,    \* argument of get_nops
    nops,      \* list returned by get_nops
    value,     \* argument of _validate_timing: a duration string
    verdict,   \* outcome of _validate_timing
    args,      \* arguments of generate_assembly_code
    program,   \* text returned by generate_assembly_code
    config,    \* configuration handed to CONFIG_SCHEMA / to_code
    fs,        \* files below CORE.build_path: path -> content
    log        \* what the last to_code run did: file writes and pioasm calls

vars == <<pc, timing, nops, value, verdict, args, program, config, fs, log>>

\* A variable a specification does not use.
Unused == "unused"

---------------------------------------------------------------------------
(* get_nops *)

\* `time_remaining < 32`, `-= 32`, `>= 32`: cycles one instruction can take.
SlotCycles == 32
\* `nops.append(31)`, "nop [31]": the largest delay field.
MaxDelayField == 31

\* A number Python computed and put in the list: `time_remaining - 1`, `31`.
IntDelay(d) == [text |-> "", num |-> d, minus |-> 0]
\* The string "nop [31]".
NopFull == [text |-> "nop", num |-> MaxDelayField, minus |-> 0]
\* The string "nop [" + str(r) + " - 1 ]".
NopRest(r) == [text |-> "nop", num |-> r, minus |-> 1]

\* The while loop of get_nops, by iteration: iteration i starts with
\* time_remaining less the (i - 1) slots taken before it, and appends
\* "nop [31]" when a whole slot remains, else the rest.  The loop ends after
\* the first iteration that leaves nothing.  `one` is the representation of
\* the number 1 (1 for an int argument, Scale for a float from a string).
nops_loop(time_remaining, one) ==
    LET slot == SlotCycles * one
        iterations == IF time_remaining > 0
                      THEN (time_remaining + slot - 1) \div slot
                      ELSE 0
        before(i) == time_remaining - (i - 1) * slot
    IN  [i \in 1..iterations |->
            IF before(i) >= slot THEN NopFull ELSE NopRest(before(i))]

\* Mutant: the rest is appended also when nothing remains.
get_nops_spurious(time, one) ==
    IF time < SlotCycles * one
    THEN <<IntDelay(time - one)>>
    ELSE LET rem == time - SlotCycles * one
             slot == SlotCycles * one
         IN  <<IntDelay(MaxDelayField)>>
             \o [i \in 1..(rem \div slot) |-> NopFull]
             \o <<NopRest(rem % slot)>>

\* Mutant: the last filler spells "nop [r]" where the code spells "nop [r - 1 ]".
get_nops_raw(time, one) ==
    IF time < SlotCycles * one
    THEN <<IntDelay(time - one)>>
    ELSE LET rem == time - SlotCycles * one
             slot == SlotCycles * one
         IN  <<IntDelay(MaxDelayField)>>
             \o [i \in 1..(rem \div slot) |-> NopFull]
             \o (IF rem % slot > 0
                 THEN <<[text |-> "nop", num |-> rem % slot, minus |-> 0]>>
                 ELSE <<>>)

\* Mutant: the first instruction is counted as 31 cycles, not 32.
get_nops_sub31(time, one) ==
    IF time < SlotCycles * one
    THEN <<IntDelay(time - one)>>
    ELSE <<IntDelay(MaxDelayField)>> \o nops_loop(time - MaxDelayField * one, one)

\* The body of get_nops on a number given in units of 1/one.
get_nops_at(time, one) ==
    IF time < SlotCycles * one
    THEN <<IntDelay(time - one)>>
    ELSE <<IntDelay(MaxDelayField)>> \o nops_loop(time - SlotCycles * one, one)

\* get_nops on an integer cycle count.
get_nops(n) == get_nops_at(n, 1)

\* `nops.pop(0)`: the list without its first element.
pop0(list) == SubSeq(list, 2, Len(list))

\* The delay an element encodes once the assembler has evaluated its text.
EncodedDelay(e) == e.num - e.minus

\* Cycles an instruction with delay field d takes: its own cycle plus d.
RECURSIVE PlanCycles(_)
PlanCycles(plan) ==
    IF plan = <<>> THEN 0
    ELSE EncodedDelay(Head(plan)) + 1 + PlanCycles(Tail(plan))

---------------------------------------------------------------------------
(* Specification SpecNops: get_nops applied to every cycle count of a range *)

\* Largest cycle count get_nops is applied to.
MaxCycles == 140

InitNops ==
    /\ pc = "call"
    /\ timing \in 1..MaxCycles
    /\ nops = <<>>
    /\ value = Unused /\ verdict = Unused /\ args = Unused
    /\ program = Unused /\ config = Unused /\ fs = Unused /\ log = Unused

CallGetNops ==
    /\ pc = "call"
    /\ nops' = get_nops(timing)
    /\ pc' = "returned"
    /\ UNCHANGED <<timing, value, verdict, args, program, config, fs, log>>

NextNops == CallGetNops

SpecNops == InitNops /\ [][NextNops]_vars

\* `if len(nops) > 3` in _validate_timing: fillers a plan may hold.
FillerBudget == 3
\* The largest cycle count a plan within the budget spans: 32 + 3 * 32.
BudgetCycles == SlotCycles * (1 + FillerBudget)

\* C2: for every n in 1..128 the plan get_nops(n) returns, each element read
\* as its encoded delay d, spans exactly n cycles: the sum of (d + 1) is n.
C2_PlanSumsToN ==
    (pc = "returned" /\ timing \in 1..BudgetCycles) => PlanCycles(nops) = timing

C2_Witness ==
    /\ pc = "returned"
    /\ timing = 100
    /\ Len(nops) = 4
    /\ nops[4] = NopRest(4)
    /\ PlanCycles(nops) = 100

\* C6: for every n in 1..128 the plan has at most 4 elements (the first plus
\* at most 3 fillers); at 128 it has exactly 4; 129 is the smallest cycle
\* count whose plan holds more than 3 fillers.
C6_PlanWithinBudget ==
    pc = "returned" =>
        /\ timing \in 1..BudgetCycles => Len(nops) <= 1 + FillerBudget
        /\ timing = BudgetCycles => Len(nops) = 1 + FillerBudget
        /\ timing = BudgetCycles + 1 => Len(pop0(nops)) > FillerBudget
        /\ Len(pop0(nops)) > FillerBudget => timing >= BudgetCycles + 1

C6_Witness ==
    /\ pc = "returned"
    /\ timing = BudgetCycles
    /\ nops = <<IntDelay(31), NopFull, NopFull, NopFull>>

\* C8: for every n in 1..31 the plan is exactly the one element n - 1; for
\* n = 32 it is exactly the one element 31, with no filler after it.
C8_ShortPlans ==
    pc = "returned" =>
        /\ timing \in 1..(SlotCycles - 1) => nops = <<IntDelay(timing - 1)>>
        /\ timing = SlotCycles => nops = <<IntDelay(31)>>

C8_Witness ==
    /\ pc = "returned"
    /\ timing = SlotCycles
    /\ nops = <<IntDelay(31)>>

---------------------------------------------------------------------------
(* time_to_cycles and _validate_timing *)

\* Units per microsecond of a float read from a duration string.  Multiples
\* of 1/4 up to MaxDuration are binary floats, and so are their products
\* with 57.5: float(), the multiplication and the comparisons are exact.
Scale == 4

\* Python's round() on the rational num / den (den > 0): to the nearest
\* integer, a tie to the even one.
RoundHalfEven(num, den) ==
    LET q == num \div den
        r == num % den
    IN  IF 2 * r > den \/ (2 * r = den /\ q % 2 = 1) THEN q + 1 ELSE q

\* round(float(time_us) * 57.5), with 57.5 = 115 / 2 and time_us in 1/Scale.
time_to_cycles(time_us) == RoundHalfEven(time_us * 115, 2 * Scale)

\* A duration string: the decimal number it starts with (in 1/Scale) and
\* the suffix it ends with.
TimingString(num, unit) == [num |-> num, unit |-> unit]

Invalid(msg) == [ok |-> FALSE, error |-> msg, value |-> 0]
Valid(v) == [ok |-> TRUE, error |-> "", value |-> v]

\* _validate_timing: the value it returns or the cv.Invalid it raises.
\* get_nops is applied to the number of microseconds.
validate_timing(v) ==
    IF v.unit # "us"
    THEN Invalid("Timing must be in microseconds (us)")
    ELSE IF Len(pop0(get_nops_at(v.num, Scale))) > 3
         THEN Invalid("Timing is too long, please try again.")
         ELSE Valid(v.num)

---------------------------------------------------------------------------
(* Specification SpecTiming: one duration string through _validate_timing, *)
(* then, when accepted, through time_to_cycles and get_nops as to_code and *)
(* generate_assembly_code do for each custom timing.                       *)

\* Largest duration tried, in 1/Scale microseconds.
MaxDuration == 520

Units == {"us", "ms", ""}

InitTiming ==
    /\ pc = "call"
    /\ value \in {TimingString(d, u) : d \in 0..MaxDuration, u \in Units}
    /\ verdict = Valid(0)
    /\ timing = 0
    /\ nops = <<>>
    /\ args = Unused /\ program = Unused
    /\ config = Unused /\ fs = Unused /\ log = Unused

ValidateTiming ==
    /\ pc = "call"
    /\ verdict' = validate_timing(value)
    /\ pc' = "validated"
    /\ UNCHANGED <<timing, nops, value, args, program, config, fs, log>>

ConvertTiming ==
    /\ pc = "validated"
    /\ verdict.ok
    /\ timing' = time_to_cycles(verdict.value)
    /\ nops' = get_nops(timing')
    /\ pc' = "converted"
    /\ UNCHANGED <<value, verdict, args, program, config, fs, log>>

NextTiming == ValidateTiming \/ ConvertTiming

SpecTiming == InitTiming /\ [][NextTiming]_vars

\* C1: the validator accepts a duration string exactly when the plan for the
\* cycle count converted from it holds at most 3 fillers: no accepted
\* duration is decomposed into more, and no representable one is rejected.
C1_ValidatorAgrees ==
    /\ pc = "converted" => Len(pop0(nops)) <= FillerBudget
    /\ (pc = "validated" /\ value.unit = "us" /\ ~verdict.ok) =>
           Len(pop0(get_nops(time_to_cycles(value.num)))) > FillerBudget

\* C5: every cycle count handed to get_nops for code generation is at least
\* 1, so the delay of the drive instruction lies in 0..31.
C5_CyclesPositive ==
    pc = "converted" =>
        /\ timing >= 1
        /\ EncodedDelay(nops[1]) \in 0..MaxDelayField


---------------------------------------------------------------------------
(* generate_assembly_code *)

\* A line of the program text: a directive, a label or an instruction.  An
\* instruction the template gives no "[...]" has the delay IntDelay(0).
\* Blank lines and comments are left out.
Line(op, a, n, tgt, delay) ==
    [op |-> op, a |-> a, n |-> n, tgt |-> tgt, delay |-> delay]

Directive(name) == Line(name, "", 0, "", IntDelay(0))
Label(name) == Line("label", name, 0, "", IntDelay(0))
\* "    set pins, <level> [<delay>]" with the delay Python formats in.
SetPins(level, delay) == Line("set", "pins", level, "", delay)
\* " " * 4 + nop for every filler left in a plan after pop(0).
FillerLines(fillers) ==
    [i \in 1..Len(fillers) |-> Line(fillers[i].text, "", 0, "", fillers[i])]

\* The c-sdk block: the init function and the default config it names, the
\* autopull threshold and the cycles per bit it declares.
const_csdk_code(pio) ==
    [driver_init |-> pio, default_config |-> pio, out_shift_bits |-> 24,
     cycles_per_bit |-> 69]

\* assembly_template.format(p0, ..., p9): the ten positional fields.
assembly_template(p0, p1, p2, p3, p4, p5, p6, p7, p8, p9) ==
    << Line(".program", "rp2040_pio_led_driver", p0, "", IntDelay(0)),
       Directive(".wrap_target"),
       Label("awaiting_data"),
       Line("pull", "block", 0, "", IntDelay(0)),
       Line("set", "y", p1, "", IntDelay(0)),
       Label("mainloop"),
       Line("out", "x", 1, "", IntDelay(0)),
       Line("jmp", "!x", 0, "writezero", IntDelay(0)),
       Line("jmp", "", 0, "writeone", IntDelay(0)),
       Label("writezero"),
       SetPins(1, p2) >>
    \o FillerLines(p3)
    \o << SetPins(0, p4) >>
    \o FillerLines(p5)
    \o << Line("jmp", "y--", 0, "mainloop", IntDelay(0)),
          Line("jmp", "", 0, "awaiting_data", IntDelay(0)),
          Label("writeone"),
          SetPins(1, p6) >>
    \o FillerLines(p7)
    \o << SetPins(0, p8) >>
    \o FillerLines(p9)
    \o << Line("jmp", "y--", 0, "mainloop", IntDelay(0)),
          Line("jmp", "", 0, "awaiting_data", IntDelay(0)),
          Directive(".wrap") >>

\* Mutant: the low delays of the two branches change places in format().
generate_assembly_code_swapped(pio, rgbw, t0h, t0l, t1h, t1l) ==
    LET nops_t0h == get_nops(t0h)
        nops_t0l == get_nops(t0l)
        nops_t1h == get_nops(t1h)
        nops_t1l == get_nops(t1l)
    IN  [ name  |-> pio,
          lines |-> assembly_template(
                        pio, IF rgbw THEN 32 ELSE 24,
                        Head(nops_t0h), pop0(nops_t0h),
                        Head(nops_t1l), pop0(nops_t0l),
                        Head(nops_t1h), pop0(nops_t1h),
                        Head(nops_t0l), pop0(nops_t1l)),
          csdk  |-> const_csdk_code(pio) ]

\* The program text: the template filled in, then the c-sdk block.
generate_assembly_code(pio, rgbw, t0h, t0l, t1h, t1l) ==
    LET nops_t0h == get_nops(t0h)
        nops_t0l == get_nops(t0l)
        nops_t1h == get_nops(t1h)
        nops_t1l == get_nops(t1l)
    IN  [ name  |-> pio,
          lines |-> assembly_template(
                        pio, IF rgbw THEN 32 ELSE 24,
                        Head(nops_t0h), pop0(nops_t0h),
                        Head(nops_t0l), pop0(nops_t0l),
                        Head(nops_t1h), pop0(nops_t1h),
                        Head(nops_t1l), pop0(nops_t1l)),
          csdk  |-> const_csdk_code(pio) ]

\* LEDStripTimings(T0H, T0L, T1H, T1L)
LEDStripTimings(a, b, c, d) == [T0H |-> a, T0L |-> b, T1H |-> c, T1L |-> d]

ChipsetNames == {"WS2812", "WS2812B", "SK6812", "SM16703"}

CHIPSETS ==
    [name \in ChipsetNames |->
        CASE name = "WS2812"  -> LEDStripTimings(20, 43, 41, 31)
          [] name = "WS2812B" -> LEDStripTimings(23, 46, 46, 23)
          [] name = "SK6812"  -> LEDStripTimings(17, 52, 31, 31)
          [] name = "SM16703" -> LEDStripTimings(17, 52, 52, 17)]

(* Reading the emitted program as the state machine runs it. *)

\* Where a label stands in a program.
LabelIndex(lines, name) ==
    CHOOSE i \in 1..Len(lines) : lines[i].op = "label" /\ lines[i].a = name

\* Whether a line is the instruction named: "set pins, 1", "set pins, 0"
\* or "jmp y--".
IsInstr(l, what) ==
    CASE what = "set pins, 1" -> l.op = "set" /\ l.a = "pins" /\ l.n = 1
      [] what = "set pins, 0" -> l.op = "set" /\ l.a = "pins" /\ l.n = 0
      [] what = "jmp y--"     -> l.op = "jmp" /\ l.a = "y--"

\* First index at or after `from` that holds the instruction named.
FirstFrom(lines, from, what) ==
    CHOOSE i \in from..Len(lines) :
        IsInstr(lines[i], what) /\ \A j \in from..(i - 1) : ~IsInstr(lines[j], what)

\* The instructions of a branch that run with the pin high: from its
\* "set pins, 1" up to the "set pins, 0".
HighPhase(lines, branch) ==
    LET up == FirstFrom(lines, LabelIndex(lines, branch), "set pins, 1")
        down == FirstFrom(lines, up, "set pins, 0")
    IN  SubSeq(lines, up, down - 1)

\* The "set pins, 0" of a branch and the fillers after it, up to the jmp.
LowPhase(lines, branch) ==
    LET up == FirstFrom(lines, LabelIndex(lines, branch), "set pins, 1")
        down == FirstFrom(lines, up, "set pins, 0")
        loop == FirstFrom(lines, down, "jmp y--")
    IN  SubSeq(lines, down, loop - 1)

\* The delays of a run of instructions, in order.
Delays(ls) == [i \in 1..Len(ls) |-> ls[i].delay]

\* Cycles a run of instructions takes: each its own cycle plus its delay.
Cycles(ls) == PlanCycles(Delays(ls))

\* The value the program loads into the bit counter y.
BitCounterInit(lines) ==
    LET i == CHOOSE j \in 1..Len(lines) : lines[j].op = "set" /\ lines[j].a = "y"
    IN  lines[i].n

---------------------------------------------------------------------------
(* Specification SpecAsm: generate_assembly_code on the timings to_code   *)
(* passes it: those of a chipset of CHIPSETS, or four cycle counts (every *)
(* combination of the samples, and every pair of counts up to MaxTiming). *)

\* Largest custom cycle count tried.
MaxTiming == 129

\* Cycle counts around every multiple of the slot.
CycleSamples ==
    {n \in 1..MaxTiming : n % SlotCycles \in {0, 1, SlotCycles - 1}}

Engines == {0, 1}

Args(pio, rgbw, chipset, t) ==
    [pio |-> pio, rgbw |-> rgbw, chipset |-> chipset,
     t0h |-> t.T0H, t0l |-> t.T0L, t1h |-> t.T1H, t1l |-> t.T1L]

InitAsm ==
    /\ pc = "call"
    /\ \E pio \in Engines, rgbw \in BOOLEAN :
          \/ \E name \in ChipsetNames :
                args = Args(pio, rgbw, name, CHIPSETS[name])
          \/ \E a, b, c, d \in CycleSamples :
                args = Args(pio, rgbw, "", LEDStripTimings(a, b, c, d))
          \/ \E n, m \in 1..MaxTiming :
                args = Args(pio, rgbw, "", LEDStripTimings(n, m, m, n))
    /\ program = [name |-> 0, lines |-> <<>>, csdk |-> const_csdk_code(0)]
    /\ timing = Unused /\ nops = Unused /\ value = Unused /\ verdict = Unused
    /\ config = Unused /\ fs = Unused /\ log = Unused

CallGenerate ==
    /\ pc = "call"
    /\ program' = generate_assembly_code(args.pio, args.rgbw, args.t0h,
                                         args.t0l, args.t1h, args.t1l)
    /\ pc' = "generated"
    /\ UNCHANGED <<timing, nops, value, verdict, args, config, fs, log>>

NextAsm == CallGenerate

SpecAsm == InitAsm /\ [][NextAsm]_vars

\* C3: for every chipset of CHIPSETS, T0H + T0L equals T1H + T1L, so the
\* writezero branch of the program generated from it takes as many cycles
\* as the writeone branch.
C3_PresetBranchesEqual ==
    (pc = "generated" /\ args.chipset \in ChipsetNames) =>
        /\ args.t0h + args.t0l = args.t1h + args.t1l
        /\ Cycles(HighPhase(program.lines, "writezero"))
             + Cycles(LowPhase(program.lines, "writezero"))
           = Cycles(HighPhase(program.lines, "writeone"))
             + Cycles(LowPhase(program.lines, "writeone"))

\* C4: the emitted program loads 23 into the bit counter y for a 3-channel
\* pixel and 31 for a 4-channel one, so that "jmp y--, mainloop", which
\* loops while y is not 0, writes 24 respectively 32 bits per word.
C4_BitCounterInit ==
    pc = "generated" =>
        BitCounterInit(program.lines) = (IF args.rgbw THEN 31 ELSE 23)

\* C10: for cycle counts in 1..128 the writezero branch holds the pin high
\* for exactly t0h cycles ("set pins, 1" with the first delay of the T0H
\* plan, then its fillers in plan order) and runs "set pins, 0" and the T0L
\* fillers for exactly t0l cycles; writeone does so with t1h and t1l.
InBudget(a) == {a.t0h, a.t0l, a.t1h, a.t1l} \subseteq 1..BudgetCycles

C10_BranchTimings ==
    (pc = "generated" /\ InBudget(args)) =>
        LET ls == program.lines IN
        /\ Cycles(HighPhase(ls, "writezero")) = args.t0h
        /\ Cycles(LowPhase(ls, "writezero")) = args.t0l
        /\ Cycles(HighPhase(ls, "writeone")) = args.t1h
        /\ Cycles(LowPhase(ls, "writeone")) = args.t1l
        /\ Delays(HighPhase(ls, "writezero")) = get_nops(args.t0h)
        /\ Delays(LowPhase(ls, "writezero")) = get_nops(args.t0l)
        /\ Delays(HighPhase(ls, "writeone")) = get_nops(args.t1h)
        /\ Delays(LowPhase(ls, "writeone")) = get_nops(args.t1l)
        /\ \A b \in {"writezero", "writeone"} :
              /\ \A i \in 2..Len(HighPhase(ls, b)) : HighPhase(ls, b)[i].op = "nop"
              /\ \A i \in 2..Len(LowPhase(ls, b)) : LowPhase(ls, b)[i].op = "nop"

C10_Witness ==
    /\ pc = "generated"
    /\ args.t0h = 33 /\ args.t0l = 128 /\ args.t1h = 97 /\ args.t1l = 31
    /\ Len(HighPhase(program.lines, "writezero")) = 2
    /\ Len(LowPhase(program.lines, "writezero")) = 4
    /\ Len(HighPhase(program.lines, "writeone")) = 4
    /\ Len(LowPhase(program.lines, "writeone")) = 1


---------------------------------------------------------------------------
(* CONFIG_SCHEMA *)

\* A key the configuration does not hold.
NoKey == "<no key>"
NoTiming == TimingString(0, NoKey)

TimingKeys == {"bit0_high", "bit0_low", "bit1_high", "bit1_low"}

\* _validate_pio_value
validate_pio_value(v) ==
    IF v < 0 \/ v > 1 THEN Invalid("Value must be between 0 and 1") ELSE Valid(v)

\* cv.one_of(*CHIPSETS, upper=True) on a present key.
one_of_chipsets(name) == name \in ChipsetNames

\* cv.Inclusive(key, "custom") on the four timing keys: all or none.
inclusive_custom(c) ==
    \/ \A k \in TimingKeys : c[k] = NoTiming
    \/ \A k \in TimingKeys : c[k] # NoTiming

\* cv.has_exactly_one_key(CONF_CHIPSET, CONF_T0H)
has_exactly_one_key(c) == (c.chipset # NoKey) # (c.bit0_high # NoTiming)

\* Whether CONFIG_SCHEMA accepts a configuration: every key's validator,
\* the inclusive group, then has_exactly_one_key.
CONFIG_SCHEMA_ok(c) ==
    /\ validate_pio_value(c.pio).ok
    /\ c.chipset # NoKey => one_of_chipsets(c.chipset)
    /\ \A k \in TimingKeys : c[k] # NoTiming => validate_timing(c[k]).ok
    /\ inclusive_custom(c)
    /\ has_exactly_one_key(c)

\* The configuration CONFIG_SCHEMA returns: each timing string replaced by
\* the float _validate_timing returns (NoValue for a key that is absent).
NoValue == 0 - 1
CONFIG_SCHEMA(c) ==
    [ pio |-> c.pio, is_rgbw |-> c.is_rgbw, chipset |-> c.chipset,
      bit0_high |-> IF c.bit0_high = NoTiming THEN NoValue
                    ELSE validate_timing(c.bit0_high).value,
      bit0_low  |-> IF c.bit0_low = NoTiming THEN NoValue
                    ELSE validate_timing(c.bit0_low).value,
      bit1_high |-> IF c.bit1_high = NoTiming THEN NoValue
                    ELSE validate_timing(c.bit1_high).value,
      bit1_low  |-> IF c.bit1_low = NoTiming THEN NoValue
                    ELSE validate_timing(c.bit1_low).value ]

---------------------------------------------------------------------------
(* to_code and the files below CORE.build_path *)

\* A path below CORE.build_path: what follows build_path up to the engine
\* number, the number, and the extension.
DriverDir == "/src/esphome/components/rp2040_pio_led_strip/Driver"
\* Line 278 spells the directory without its leading slash.
DriverDirNoSlash == "src/esphome/components/rp2040_pio_led_strip/Driver"

PioPath(k) == <<DriverDir, k, ".pio">>
HeaderPath(k) == <<DriverDir, k, ".pio.h">>

Paths ==
    {PioPath(k) : k \in Engines} \cup {HeaderPath(k) : k \in Engines}
    \cup {<<DriverDirNoSlash, 1, ".pio">>}

NoProgram == [name |-> 0 - 1, lines |-> <<>>, csdk |-> const_csdk_code(0 - 1)]

\* What a path holds.  guard lists the engines whose include guard wraps
\* the content, innermost first.
File(kind, text, prog) ==
    [kind |-> kind, text |-> text, guard |-> <<>>, program |-> prog]
NoFile == File("absent", "", NoProgram)
Nothing == File("text", "//nothing", NoProgram)

\* os.path.isfile
isfile(files, path) == files[path].kind # "absent"

\* open(path, "w") and f.write(content)
write(files, path, content) == [files EXCEPT ![path] = content]

\* pioasm <source> <header>: the header it writes holds the assembled program.
pioasm(files, source, header) ==
    write(files, header, File("header", "", files[source].program))

\* "#ifndef __DRIVER{}_PIO_H__ ... " + code + "#endif"
include_guard(k, code) == [code EXCEPT !.guard = Append(@, k)]

\* The cycle counts to_code hands to generate_assembly_code.
timings_of(c) ==
    IF c.chipset # NoKey
    THEN CHIPSETS[c.chipset]
    ELSE LEDStripTimings(time_to_cycles(c.bit0_high), time_to_cycles(c.bit0_low),
                         time_to_cycles(c.bit1_high), time_to_cycles(c.bit1_low))

\* Lines 268-285: the placeholder headers.
placeholders(files) ==
    LET f0 == IF ~isfile(files, <<DriverDir, 0, ".pio">>)
              THEN write(files, HeaderPath(0), Nothing) ELSE files
    IN  IF ~isfile(f0, <<DriverDirNoSlash, 1, ".pio">>)
        THEN write(f0, HeaderPath(1), Nothing) ELSE f0

\* The paths lines 268-285 write, in order.
placeholder_writes(files) ==
    (IF ~isfile(files, <<DriverDir, 0, ".pio">>) THEN <<HeaderPath(0)>> ELSE <<>>)
    \o (IF ~isfile(files, <<DriverDirNoSlash, 1, ".pio">>)
        THEN <<HeaderPath(1)>> ELSE <<>>)

\* The files after to_code(c).
to_code(files, c) ==
    LET t  == timings_of(c)
        f2 == placeholders(files)
        f3 == write(f2, PioPath(c.pio),
                    File("pio", "",
                         generate_assembly_code(c.pio, c.is_rgbw,
                                                t.T0H, t.T0L, t.T1H, t.T1L)))
        f4 == pioasm(f3, PioPath(c.pio), HeaderPath(c.pio))
    IN  write(f4, HeaderPath(c.pio), include_guard(c.pio, f4[HeaderPath(c.pio)]))

---------------------------------------------------------------------------
(* Specification Spec: configurations through CONFIG_SCHEMA and, when *)
(* accepted, through to_code, one after the other on the same build path.  *)

\* to_code runs on one build path.
MaxRuns == 2

\* Duration strings tried: 0.5us, 0.5 without unit, 3us (172.5 cycles),
\* 129us.
TimingInputs ==
    {NoTiming, TimingString(2, "us"), TimingString(2, ""),
     TimingString(12, "us"), TimingString(516, "us")}

ConfigInputs ==
    [ pio : {0, 1, 2}, is_rgbw : BOOLEAN,
      chipset : ChipsetNames \cup {NoKey, "WS2811"},
      bit0_high : TimingInputs, bit0_low : TimingInputs,
      bit1_high : TimingInputs, bit1_low : TimingInputs ]

NoConfig ==
    [ pio |-> NoValue, is_rgbw |-> FALSE, chipset |-> NoKey,
      bit0_high |-> NoValue, bit0_low |-> NoValue,
      bit1_high |-> NoValue, bit1_low |-> NoValue ]
NoInput ==
    [ pio |-> NoValue, is_rgbw |-> FALSE, chipset |-> NoKey,
      bit0_high |-> NoTiming, bit0_low |-> NoTiming,
      bit1_high |-> NoTiming, bit1_low |-> NoTiming ]

Init ==
    /\ pc = "idle"
    /\ value = NoInput
    /\ verdict = Unused
    /\ config = NoConfig
    /\ fs = [p \in Paths |-> NoFile]
    /\ log = [runs |-> 0, writes |-> <<>>, pioasm |-> <<>>]
    /\ timing = Unused /\ nops = Unused /\ args = Unused /\ program = Unused

\* The framework validates a configuration before it generates code for it;
\* a rejected configuration ends the build.
Validate ==
    /\ pc \in {"idle", "built"}
    /\ log.runs < MaxRuns
    /\ \E c \in ConfigInputs :
          /\ value' = c
          /\ IF CONFIG_SCHEMA_ok(c)
             THEN pc' = "validated" /\ config' = CONFIG_SCHEMA(c)
             ELSE pc' = "invalid" /\ config' = NoConfig
    /\ log' = [log EXCEPT !.writes = <<>>, !.pioasm = <<>>]
    /\ UNCHANGED <<timing, nops, verdict, args, program, fs>>

ToCode ==
    /\ pc = "validated"
    /\ fs' = to_code(fs, config)
    /\ log' = [ runs |-> log.runs + 1,
                writes |-> placeholder_writes(fs)
                           \o <<PioPath(config.pio), HeaderPath(config.pio)>>,
                pioasm |-> <<PioPath(config.pio)>> ]
    /\ pc' = "built"
    /\ UNCHANGED <<timing, nops, value, verdict, args, program, config>>

Next == Validate \/ ToCode

Spec == Init /\ [][Next]_vars


\* A configuration error as the claim lists them: a timing string without
\* the "us" suffix, a timing whose cycle count needs more than 3 fillers,
\* an unknown chipset, both or neither of chipset and custom timings.
Unrepresentable(t) ==
    t.unit = "us" /\ Len(pop0(get_nops(time_to_cycles(t.num)))) > FillerBudget

HasConfigError(c) ==
    \/ \E k \in TimingKeys : c[k] # NoTiming /\ c[k].unit # "us"
    \/ \E k \in TimingKeys : c[k] # NoTiming /\ Unrepresentable(c[k])
    \/ c.chipset # NoKey /\ c.chipset \notin ChipsetNames
    \/ c.chipset # NoKey /\ \E k \in TimingKeys : c[k] # NoTiming
    \/ c.chipset = NoKey /\ \A k \in TimingKeys : c[k] = NoTiming

\* C7: a configuration with such an error fails validation, and no file is
\* written and pioasm is not run for it.
C7_ErrorsBeforeArtifacts ==
    (pc \in {"invalid", "built"} /\ HasConfigError(value)) =>
        /\ pc = "invalid"
        /\ log.writes = <<>>
        /\ log.pioasm = <<>>

\* The header of engine k holds the program assembled from Driver{k}.pio
\* inside its include guard.
HeaderHoldsProgram(files, k) ==
    files[HeaderPath(k)]
        = include_guard(k, File("header", "", files[PioPath(k)].program))

\* C9: a to_code run for engine k leaves the generated files of the other
\* engine as they are, so after every run the header of each engine built
\* so far holds that engine's own guarded program, not "//nothing".
C9_EnginesIndependent ==
    [][ /\ \A k \in Engines :
              (pc = "validated" /\ config.pio = k
                  /\ HeaderHoldsProgram(fs, 1 - k)) =>
                  /\ fs'[PioPath(1 - k)] = fs[PioPath(1 - k)]
                  /\ fs'[HeaderPath(1 - k)] = fs[HeaderPath(1 - k)]
        /\ \A k \in Engines :
              isfile(fs', PioPath(k)) => HeaderHoldsProgram(fs', k)
      ]_vars


====
